---- MODULE Spec2Model ----
(***************************************************************************)
(* Live-room broadcast relay of server.js (lines 19-57) and the liveness   *)
(* surface GET /api/health (lines 260-266).                                *)
(*                                                                         *)
(* The relay is a set of callbacks run to completion by the Node event     *)
(* loop: wss.on('connection'), and per connection ws.on('message'),        *)
(* ws.on('close'), ws.on('error').  Each callback is one action.  The      *)
(* transport (the ws library) is the environment: it decides which event   *)
(* comes next, what readyState a socket has, and whether a call of         *)
(* ws.send throws.                                                         *)
(***************************************************************************)
EXTENDS Integers, Sequences, FiniteSets, TLC

\* ------------------------------------------------------------------ bounds
MaxConns == 2        \* connections the transport accepts in one run
MaxMessages == 1     \* 'message' events in one run
MaxDisconnects == 3  \* 'close' / 'error' events in one run

Conns == 1..MaxConns

\* --------------------------------------------------------------- JSON text
\* A JSON literal as it is written in a text.
Str(s) == [t |-> "str", s |-> s, mant |-> 0, exp |-> 0]
Num(m, e) == [t |-> "num", s |-> "", mant |-> m, exp |-> e]      \* m * 10^e
Null == [t |-> "null", s |-> "", mant |-> 0, exp |-> 0]
\* The JavaScript value Infinity (no JSON literal denotes it).
Infinity == [t |-> "inf", s |-> "", mant |-> 0, exp |-> 0]

\* A raw payload: wf says whether the text is well-formed JSON; a well-formed
\* text is an object, written as its members in order, with or without
\* insignificant white space (pad).
Text(members, pad) == [wf |-> TRUE, pad |-> pad, members |-> members]
Malformed == [wf |-> FALSE, pad |-> FALSE, members |-> <<>>]

Member(k, lit) == [key |-> k, lit |-> lit]

\* { "text": "x", "name": "A", "text": "hi" }
PayloadHi ==
    Text(<<Member("text", Str("x")), Member("name", Str("A")),
           Member("text", Str("hi"))>>, TRUE)
\* {"name":"A","n":1e999}
PayloadBig == Text(<<Member("name", Str("A")), Member("n", Num(1, 999))>>, FALSE)

Payloads == {PayloadHi, PayloadBig, Malformed}

\* The value JSON.parse gives a literal: a number beyond the double range
\* (about 1.8e308) becomes Infinity.
LiteralValue(lit) ==
    IF lit.t = "num" /\ lit.mant # 0 /\ lit.exp > 308 THEN Infinity ELSE lit

\* Property assignment of a JavaScript object: an existing key keeps its
\* place and takes the new value, a new key is appended.
PutProperty(obj, k, v) ==
    IF \E i \in 1..Len(obj) : obj[i].key = k
    THEN [i \in 1..Len(obj) |->
             IF obj[i].key = k THEN [key |-> k, val |-> v] ELSE obj[i]]
    ELSE Append(obj, [key |-> k, val |-> v])

RECURSIVE ParseMembers(_, _)
ParseMembers(members, obj) ==
    IF members = <<>> THEN obj
    ELSE ParseMembers(Tail(members),
                      PutProperty(obj, Head(members).key,
                                  LiteralValue(Head(members).lit)))

\* A parser that takes any text for data.
JSONparseAny(raw) == [ok |-> TRUE, data |-> ParseMembers(raw.members, <<>>)]

\* JSON.parse(message): throws (ok = FALSE) on a malformed text.
JSONparse(raw) ==
    IF raw.wf THEN [ok |-> TRUE, data |-> ParseMembers(raw.members, <<>>)]
    ELSE [ok |-> FALSE, data |-> <<>>]

\* JSON.stringify(data): own properties in order, no white space, a
\* non-finite number written as null.
JSONstringify(data) ==
    Text([i \in 1..Len(data) |->
             Member(data[i].key,
                    IF data[i].val.t = "inf" THEN Null ELSE data[i].val)],
         FALSE)

\* The welcome text of lines 27-30.
WelcomeData ==
    <<[key |-> "name", val |-> Str("System")],
      [key |-> "text", val |-> Str("Welcome to the Live Room! You are now connected.")]>>

WelcomeText == JSONstringify(WelcomeData)

\* ------------------------------------------------------------------- state
VARIABLES
    liveConnections, \* the Set of line 20, in insertion order (forEach order)
    readyState,      \* ws.readyState of each socket, set by the transport
    handlers,        \* sockets whose message/close/error listeners are registered
    running,         \* FALSE once an exception left a callback uncaught
    sent,            \* per socket, the calls of its send(), in order
    nConnect,        \* 'connection' events processed
    nDisconnect,     \* 'close' and 'error' events processed
    nMsg,            \* 'message' events processed
    gone,            \* sockets for which a 'close' or 'error' was processed
    lastEvent        \* the event the last step processed

vars == <<liveConnections, readyState, handlers, running, sent,
          nConnect, nDisconnect, nMsg, gone, lastEvent>>

NoSocket == 0

Event(type, ws, raw, failing, threw) ==
    [type |-> type, ws |-> ws, raw |-> raw, failing |-> failing, threw |-> threw]

\* One call of ws.send: the text passed and whether the call returned; for
\* a welcome, the socket it greets; for a relayed message, the number of the
\* 'message' event it answers.
Frame(kind, for, id, text, ok) ==
    [kind |-> kind, for |-> for, id |-> id, text |-> text, ok |-> ok]

\* ------------------------------------------------------- the Set of line 20
Members(set) == {set[i] : i \in 1..Len(set)}

\* Set.prototype.add
SetAdd(set, x) == IF x \in Members(set) THEN set ELSE Append(set, x)

\* A delete written with splice(indexOf(x), 1): an absent x removes the last entry.
SetDeleteSplice(set, x) ==
    IF x \in Members(set) THEN SelectSeq(set, LAMBDA y : y # x)
    ELSE SubSeq(set, 1, Len(set) - 1)

\* A handler that forgets the delete.
SetDeleteNone(set, x) == set

\* Set.prototype.delete
SetDelete(set, x) == SelectSeq(set, LAMBDA y : y # x)

\* liveConnections.size, as GET /api/health reports it
LiveConnectionsSize == Len(liveConnections)

\* ------------------------------------------------------------ the fan-out
\* A fan-out that sends without looking at readyState.
RECURSIVE ForEachAnyState(_, _, _)
ForEachAnyState(clients, rs, failing) ==
    IF clients = <<>> THEN [sent |-> <<>>, threw |-> NoSocket]
    ELSE IF Head(clients) \in failing THEN [sent |-> <<>>, threw |-> Head(clients)]
    ELSE LET rest == ForEachAnyState(Tail(clients), rs, failing)
         IN  [sent |-> <<Head(clients)>> \o rest.sent, threw |-> rest.threw]

\* liveConnections.forEach(client => { if (client.readyState === OPEN)
\* client.send(...) }): the sockets whose send returned, in order, and the
\* socket whose send threw (which ends the loop), if any.
RECURSIVE ForEach(_, _, _)
ForEach(clients, rs, failing) ==
    IF clients = <<>> THEN [sent |-> <<>>, threw |-> NoSocket]
    ELSE LET client == Head(clients)
         IN  IF rs[client] = "OPEN"
             THEN IF client \in failing
                  THEN [sent |-> <<>>, threw |-> client]
                  ELSE LET rest == ForEach(Tail(clients), rs, failing)
                       IN  [sent |-> <<client>> \o rest.sent, threw |-> rest.threw]
             ELSE ForEach(Tail(clients), rs, failing)

\* A welcome sent the way relayed messages are: to every member.
WelcomeToAll(ws, set) == Members(set)

\* The welcome goes to ws.send alone (line 27).
WelcomeTargets(ws, set) == {ws}

\* The try of lines 33-42: parse, then fan out. A parse failure or a throwing
\* send lands in the catch of lines 43-45, which only logs.
TryBroadcast(raw, set, rs, failing) ==
    LET parsed == JSONparse(raw)
    IN  IF parsed.ok
        THEN LET r == ForEach(set, rs, failing)
             IN  [text |-> JSONstringify(parsed.data), sent |-> r.sent, threw |-> r.threw]
        ELSE [text |-> Malformed, sent |-> <<>>, threw |-> NoSocket]

\* -------------------------------------------------------------------- Init
Init ==
    /\ liveConnections = <<>>
    /\ readyState = [c \in Conns |-> "NONE"]
    /\ handlers = {}
    /\ running = TRUE
    /\ sent = [c \in Conns |-> <<>>]
    /\ nConnect = 0
    /\ nDisconnect = 0
    /\ nMsg = 0
    /\ gone = {}
    /\ lastEvent = Event("init", NoSocket, Malformed, {}, FALSE)

\* ----------------------------------------------------------------- actions
\* wss.on('connection', ws => ...), lines 22-57. The transport hands over a
\* new open socket; sendFails is whether ws.send throws. The throw is not
\* caught: the listeners of lines 32-56 are never registered and the
\* exception reaches the event loop.
OnConnection(sendFails) ==
    LET ws == nConnect + 1
        set == SetAdd(liveConnections, ws)
        targets == WelcomeTargets(ws, set)
    IN  /\ running
        /\ nConnect < MaxConns
        /\ liveConnections' = set
        /\ readyState' = [readyState EXCEPT ![ws] = "OPEN"]
        /\ sent' = [c \in Conns |->
                       IF c \in targets
                       THEN Append(sent[c],
                                   Frame("welcome", ws, 0, WelcomeText, ~sendFails))
                       ELSE sent[c]]
        /\ handlers' = IF sendFails THEN handlers ELSE handlers \cup {ws}
        /\ running' = ~sendFails
        /\ nConnect' = nConnect + 1
        /\ lastEvent' = Event("connection", ws, Malformed, {}, sendFails)
        /\ UNCHANGED <<nDisconnect, nMsg, gone>>

\* ws.on('message', message => ...), lines 32-46. failing: the sockets whose
\* send throws during this event.
OnMessage(ws, raw, failing) ==
    LET r == TryBroadcast(raw, liveConnections, readyState, failing)
        id == nMsg + 1
    IN  /\ running
        /\ ws \in handlers
        /\ readyState[ws] # "CLOSED"
        /\ nMsg < MaxMessages
        /\ sent' = [c \in Conns |->
                       IF c \in Members(r.sent)
                       THEN Append(sent[c], Frame("relay", NoSocket, id, r.text, TRUE))
                       ELSE IF c = r.threw
                       THEN Append(sent[c], Frame("relay", NoSocket, id, r.text, FALSE))
                       ELSE sent[c]]
        /\ nMsg' = id
        /\ lastEvent' = Event("message", ws, raw, failing, r.threw # NoSocket)
        /\ UNCHANGED <<liveConnections, readyState, handlers, running,
                       nConnect, nDisconnect, gone>>

\* ws.on('close', () => ...), lines 48-51.
OnClose(ws) ==
    /\ running
    /\ ws \in handlers
    /\ nDisconnect < MaxDisconnects
    /\ liveConnections' = SetDelete(liveConnections, ws)
    /\ readyState' = [readyState EXCEPT ![ws] = "CLOSED"]
    /\ gone' = gone \cup {ws}
    /\ nDisconnect' = nDisconnect + 1
    /\ lastEvent' = Event("close", ws, Malformed, {}, FALSE)
    /\ UNCHANGED <<handlers, running, sent, nConnect, nMsg>>

\* ws.on('error', error => ...), lines 53-56. The transport has left OPEN
\* by the time it reports an error.
OnError(ws) ==
    /\ running
    /\ ws \in handlers
    /\ nDisconnect < MaxDisconnects
    /\ liveConnections' = SetDelete(liveConnections, ws)
    /\ readyState' = [readyState EXCEPT ![ws] =
                         IF @ = "OPEN" THEN "CLOSING" ELSE @]
    /\ gone' = gone \cup {ws}
    /\ nDisconnect' = nDisconnect + 1
    /\ lastEvent' = Event("error", ws, Malformed, {}, FALSE)
    /\ UNCHANGED <<handlers, running, sent, nConnect, nMsg>>

\* The transport starts closing a socket (closing handshake) before any
\* event reaches the relay: readyState, read at line 39, is no longer OPEN.
TransportClosing(ws) ==
    /\ running
    /\ readyState[ws] = "OPEN"
    /\ readyState' = [readyState EXCEPT ![ws] = "CLOSING"]
    /\ lastEvent' = Event("transport", ws, Malformed, {}, FALSE)
    /\ UNCHANGED <<liveConnections, handlers, running, sent,
                   nConnect, nDisconnect, nMsg, gone>>

\* The sockets whose send throws during one 'message' event: none, or one
\* open member. The first throw ends the handler (the catch of line 43 is
\* outside the loop), so no second throw is ever seen.
FailingSets ==
    {{}} \cup {{c} : c \in {d \in Members(liveConnections) : readyState[d] = "OPEN"}}

Next ==
    \/ \E sendFails \in BOOLEAN : OnConnection(sendFails)
    \/ \E ws \in Conns, raw \in Payloads, failing \in FailingSets :
           OnMessage(ws, raw, failing)
    \/ \E ws \in Conns : OnClose(ws)
    \/ \E ws \in Conns : OnError(ws)
    \/ \E ws \in Conns : TransportClosing(ws)

Spec == Init /\ [][Next]_vars

\* ------------------------------------------------------- reading the state
Accepted == 1..nConnect

OpenMembers == {c \in Members(liveConnections) : readyState[c] = "OPEN"}

\* The sends of relayed message number id on socket c that returned.
Copies(c, id) ==
    {i \in DOMAIN sent[c] :
        sent[c][i].kind = "relay" /\ sent[c][i].id = id /\ sent[c][i].ok}

\* The welcome sends on socket d that greet socket c.
Welcomes(d, c) ==
    {i \in DOMAIN sent[d] : sent[d][i].kind = "welcome" /\ sent[d][i].for = c}

\* What a well-formed text says: each key with the literal written last for it.
Content(text) ==
    LET at(k) == {i \in DOMAIN text.members : text.members[i].key = k}
    IN  [k \in {text.members[i].key : i \in DOMAIN text.members} |->
            text.members[CHOOSE i \in at(k) : \A j \in at(k) : j <= i].lit]

AfterMessage == lastEvent.type = "message"

\* The step is the handling of a 'message' / of a 'close' or 'error'.
MessageStep == nMsg' # nMsg
DisconnectStep == nDisconnect' # nDisconnect

\* ------------------------------------------------------------------ claims
\* C1: after a well-formed message from a member has been handled, every
\* member that is OPEN, and whose own send did not throw, has been sent
\* exactly one copy of it, and the copy says what the message said.
C1_FanOutComplete ==
    (AfterMessage /\ lastEvent.raw.wf /\ lastEvent.ws \in Members(liveConnections))
    => \A c \in OpenMembers \ lastEvent.failing :
           /\ Cardinality(Copies(c, nMsg)) = 1
           /\ \A i \in Copies(c, nMsg) :
                  Content(sent[c][i].text) = Content(lastEvent.raw)

\* C2: when the send to exactly one open target throws during a fan-out,
\* every other open target is still sent the message, and no socket other
\* than the failed one has left the active set.
C2_TargetIsolation ==
    (AfterMessage /\ lastEvent.raw.wf /\ Cardinality(lastEvent.failing) = 1)
    => /\ \A c \in OpenMembers \ lastEvent.failing : Copies(c, nMsg) # {}
       /\ (Accepted \ gone) \ lastEvent.failing \subseteq Members(liveConnections)

\* C3: every accepted connection has had the welcome text passed to its
\* send exactly once, sockets not yet accepted never, and the welcome that
\* greets c is passed to no socket but c.
C3_WelcomeOnce ==
    \A c \in Conns :
        /\ Cardinality(Welcomes(c, c)) = (IF c \in Accepted THEN 1 ELSE 0)
        /\ \A i \in Welcomes(c, c) : sent[c][i].text = WelcomeText
        /\ \A d \in Conns \ {c} : Welcomes(d, c) = {}

C3_Witness ==
    /\ running
    /\ nConnect >= 2
    /\ gone # {}
    /\ AfterMessage
    /\ \E c \in Conns : Copies(c, nMsg) # {}

\* C4: handling a payload that does not parse calls no send, leaves the
\* active set as it was (the sender included) and leaves the process running.
C4_MalformedIsolation ==
    [][(MessageStep /\ ~lastEvent'.raw.wf)
       => /\ sent' = sent
          /\ liveConnections' = liveConnections
          /\ running']_vars

C4_Witness ==
    /\ AfterMessage
    /\ ~lastEvent.raw.wf
    /\ lastEvent.ws \in OpenMembers
    /\ Cardinality(OpenMembers) >= 2

\* C5: a close or error event for ws leaves the active set without ws and
\* otherwise as it was; when ws is already absent (an earlier close or error
\* removed it) the set stays exactly as it was; the process keeps running.
C5_DisconnectIdempotent ==
    [][DisconnectStep
       => /\ liveConnections' = SelectSeq(liveConnections,
                                          LAMBDA y : y # lastEvent'.ws)
          /\ lastEvent'.ws \notin Members(liveConnections')
          /\ (lastEvent'.ws \notin Members(liveConnections)
                 => liveConnections' = liveConnections)
          /\ running']_vars

\* Two events were processed, both for one socket, the second a close, with
\* another socket still in the set.
C5_Witness ==
    /\ nDisconnect = 2
    /\ Cardinality(gone) = 1
    /\ lastEvent.type = "close"
    /\ Len(liveConnections) = 1

\* C6 as stated: the reported count is the connect events minus the close
\* and error events processed, floored at 0.
C6_CountIsConnectsMinusDisconnects ==
    LiveConnectionsSize =
        (IF nConnect - nDisconnect > 0 THEN nConnect - nDisconnect ELSE 0)

\* C6 amended: the reported count is the connections accepted minus the
\* connections for which at least one close or error event was processed.
C6_CountIsAcceptedMinusGone ==
    LiveConnectionsSize = nConnect - Cardinality(gone)

C6_Witness ==
    /\ nDisconnect > Cardinality(gone)
    /\ nMsg >= 1
    /\ LiveConnectionsSize >= 1

\* C7: a socket is in the active set, once, iff it was accepted and no close
\* or error event for it has been processed; and only the handling of a
\* connection, close or error event changes the set.
C7_ActiveSetInvariant ==
    /\ [](/\ \A c \in Conns :
               c \in Members(liveConnections) <=> (c \in Accepted /\ c \notin gone)
          /\ Len(liveConnections) = Cardinality(Members(liveConnections)))
    /\ [][liveConnections' # liveConnections
          => /\ lastEvent'.type \in {"connection", "close", "error"}
             /\ ~MessageStep]_vars

C7_Witness ==
    /\ AfterMessage
    /\ gone # {}
    /\ liveConnections # <<>>
    /\ \E c \in Accepted : readyState[c] = "CLOSING" /\ c \notin gone

\* C8: when the welcome send throws, the process keeps running and the new
\* connection's message, close and error listeners are registered.
C8_WelcomeFailureNotFatal ==
    (lastEvent.type = "connection" /\ lastEvent.threw)
    => (running /\ lastEvent.ws \in handlers)

\* C9: handling a message calls send only on sockets that are in the active
\* set and OPEN, never on one whose close or error was processed; with an
\* empty active set it calls no send and raises nothing.
C9_FanOutSound ==
    [][MessageStep
       => /\ \A c \in Conns :
                 sent'[c] # sent[c]
                 => /\ c \in Members(liveConnections)
                    /\ readyState[c] = "OPEN"
                    /\ c \notin gone
          /\ (liveConnections = <<>>
                 => sent' = sent /\ ~lastEvent'.threw /\ running')]_vars

\* B disconnected, then A's message was relayed: to A, not to B.
C9_Witness ==
    /\ AfterMessage
    /\ lastEvent.raw.wf
    /\ \E b \in gone : Copies(b, nMsg) = {}
    /\ \E a \in OpenMembers : Copies(a, nMsg) # {}

\* C10: a message is fanned out only when the socket it arrived on is in the
\* active set.
C10_SenderIsMember ==
    (AfterMessage /\ \E c \in Conns : Copies(c, nMsg) # {})
    => lastEvent.ws \in Members(liveConnections)

====
